---------------------------- MODULE Spec2Model ----------------------------
(***************************************************************************)
(* A model of zctor's documentation tools:                                 *)
(*   docs/generate_docs.py  DocGenerator  (comment and signature           *)
(*                          extraction, file scan, API reference renderer) *)
(*   docs/generate_book.py  BookGenerator (chapter assembly, HTML output)  *)
(*                                                                         *)
(* Texts are TLA+ strings; a character of a text is a string of length 1.  *)
(***************************************************************************)
EXTENDS Naturals, Sequences, FiniteSets, TLC

VARIABLES
    pc,          \* position of the running tool
    content,     \* source text handed to the extractors
    record,      \* FileRecord built by process_source_file from content
    files,       \* the source files found by the glob, in discovery order
    scan_i,      \* scan_source_files: number of files already visited
    api_docs,    \* DocGenerator.api_docs, in insertion order
    markdown,    \* the API reference, one entry per appended piece
    log,         \* the warnings, errors and tracebacks printed (progress lines left out)
    fs,          \* the file system the generators write to: path -> entry
    call         \* the call BookGenerator is serving

vars == <<pc, content, record, files, scan_i, api_docs, markdown, log, fs, call>>

----------------------------------------------------------------------------
(* Text primitives (Python str methods used by the code)                   *)

\* str.strip() and the regular expressions' \s: the whitespace of the model
Whitespace == {" ", "\t"}

\* the regular expressions' \w
WordChars ==
    {"a","b","c","d","e","f","g","h","i","j","k","l","m","n","o","p","q","r",
     "s","t","u","v","w","x","y","z","A","B","C","D","E","F","G","H","I","J",
     "K","L","M","N","O","P","Q","R","S","T","U","V","W","X","Y","Z","0","1",
     "2","3","4","5","6","7","8","9","_"}

Char(s, i) == SubSeq(s, i, i)

\* s[n:]
Drop(s, n) == SubSeq(s, n + 1, Len(s))

RECURSIVE LStrip(_)
LStrip(s) ==
    IF s # "" /\ Char(s, 1) \in Whitespace THEN LStrip(Drop(s, 1)) ELSE s

RECURSIVE RStrip(_)
RStrip(s) ==
    IF s # "" /\ Char(s, Len(s)) \in Whitespace
    THEN RStrip(SubSeq(s, 1, Len(s) - 1))
    ELSE s

\* str.strip()
Strip(s) == RStrip(LStrip(s))

\* str.startswith(p)
StartsWith(s, p) == Len(s) >= Len(p) /\ SubSeq(s, 1, Len(p)) = p

\* p in s
Contains(s, p) ==
    \E i \in 1..(Len(s) + 1) :
        i + Len(p) - 1 <= Len(s) /\ SubSeq(s, i, i + Len(p) - 1) = p

\* index of the first character of s at or after position from that is in cs;
\* Len(s) + 1 when there is none
RECURSIVE FindChar(_, _, _)
FindChar(s, from, cs) ==
    IF from > Len(s) \/ Char(s, from) \in cs
    THEN from
    ELSE FindChar(s, from + 1, cs)

\* index of the first character of s at or after position from that is not in cs
RECURSIVE SkipChars(_, _, _)
SkipChars(s, from, cs) ==
    IF from <= Len(s) /\ Char(s, from) \in cs
    THEN SkipChars(s, from + 1, cs)
    ELSE from

\* str.split('\n')
RECURSIVE SplitLines(_)
SplitLines(s) ==
    LET k == FindChar(s, 1, {"\n"})
    IN  IF k > Len(s)
        THEN <<s>>
        ELSE <<SubSeq(s, 1, k - 1)>> \o SplitLines(Drop(s, k))

\* '\n'.join(ls)
RECURSIVE JoinLines(_)
JoinLines(ls) ==
    IF ls = <<>> THEN ""
    ELSE IF Len(ls) = 1 THEN ls[1]
    ELSE ls[1] \o "\n" \o JoinLines(Tail(ls))


----------------------------------------------------------------------------
(* DocGenerator: the extractors                                            *)

\* extract_doc_comments with the item-comment branch lost
extract_doc_comments_module_only(text) ==
    LET lines == SplitLines(text)
        RECURSIVE Loop(_, _)
        Loop(i, doc_comments) ==
            IF i > Len(lines) THEN doc_comments
            ELSE LET stripped == Strip(lines[i])
                 IN  IF StartsWith(stripped, "//!")
                     THEN Loop(i + 1, Append(doc_comments, Strip(Drop(stripped, 3))))
                     ELSE Loop(i + 1, doc_comments)
    IN  Loop(1, <<>>)

\* extract_doc_comments: every //! and /// line, marker removed, in order
extract_doc_comments(text) ==
    LET lines == SplitLines(text)
        RECURSIVE Loop(_, _)
        Loop(i, doc_comments) ==
            IF i > Len(lines) THEN doc_comments
            ELSE LET stripped == Strip(lines[i])
                 IN  IF StartsWith(stripped, "//!")
                     THEN Loop(i + 1, Append(doc_comments, Strip(Drop(stripped, 3))))
                     ELSE IF StartsWith(stripped, "///")
                     THEN Loop(i + 1, Append(doc_comments, Strip(Drop(stripped, 3))))
                     ELSE Loop(i + 1, doc_comments)
    IN  Loop(1, <<>>)

\* re.match(r'pub fn\s+(\w+)\s*\((.*?)\)\s*(.*?)(?:\{|$)', stripped)
\* The name is the run of word characters after the blanks, an opening
\* parenthesis must follow it (blanks allowed), group 2 ends at the first
\* closing parenthesis after that, group 3 ends at the first brace or at
\* the end of the line.
func_match(stripped) ==
    LET n     == Len(stripped)
        a     == SkipChars(stripped, 7, Whitespace)
        b     == SkipChars(stripped, a, WordChars)
        c     == SkipChars(stripped, b, Whitespace)
        close == FindChar(stripped, c + 1, {")"})
        r     == SkipChars(stripped, close + 1, Whitespace)
        stop  == FindChar(stripped, r, {"{"})
    IN  IF /\ StartsWith(stripped, "pub fn")
           /\ a > 7
           /\ b > a
           /\ c <= n /\ Char(stripped, c) = "("
           /\ close <= n
        THEN [matched |-> TRUE,
              g1 |-> SubSeq(stripped, a, b - 1),
              g2 |-> SubSeq(stripped, c + 1, close - 1),
              g3 |-> SubSeq(stripped, r, stop - 1)]
        ELSE [matched |-> FALSE, g1 |-> "", g2 |-> "", g3 |-> ""]

\* func_doc_lines with append in place of insert(0, ...)
func_doc_lines_appended(lines, i) ==
    LET RECURSIVE Walk(_, _)
        Walk(j, doc_lines) ==
            IF j >= 1 /\ StartsWith(Strip(lines[j]), "///")
            THEN Walk(j - 1, Append(doc_lines, Strip(Drop(Strip(lines[j]), 3))))
            ELSE doc_lines
    IN  Walk(i - 1, <<>>)

\* the comment lines collected above a function (the while loop)
func_doc_lines(lines, i) ==
    LET RECURSIVE Walk(_, _)
        Walk(j, doc_lines) ==
            IF j >= 1 /\ StartsWith(Strip(lines[j]), "///")
            THEN Walk(j - 1, <<Strip(Drop(Strip(lines[j]), 3))>> \o doc_lines)
            ELSE doc_lines
    IN  Walk(i - 1, <<>>)

\* extract_function_signatures; lines are numbered from 1, so the record's
\* 'line' (i + 1 for the code's 0-based i) is the index itself
extract_function_signatures(text) ==
    LET lines == SplitLines(text)
        RECURSIVE Loop(_, _)
        Loop(i, functions) ==
            IF i > Len(lines) THEN functions
            ELSE LET stripped   == Strip(lines[i])
                     func_match_ == func_match(stripped)
                 IN  IF StartsWith(stripped, "pub fn ") /\ func_match_.matched
                     THEN Loop(i + 1, Append(functions,
                              [name          |-> func_match_.g1,
                               params        |-> func_match_.g2,
                               return_type   |-> Strip(func_match_.g3),
                               documentation |-> JoinLines(func_doc_lines(lines, i)),
                               line          |-> i]))
                     ELSE Loop(i + 1, functions)
    IN  Loop(1, <<>>)

\* re.match(r'pub const\s+(\w+)\s*=\s*(.*?)(?:\{|$)', stripped)
type_match(stripped) ==
    LET n    == Len(stripped)
        a    == SkipChars(stripped, 10, Whitespace)
        b    == SkipChars(stripped, a, WordChars)
        c    == SkipChars(stripped, b, Whitespace)
        r    == SkipChars(stripped, c + 1, Whitespace)
        stop == FindChar(stripped, r, {"{"})
    IN  IF /\ StartsWith(stripped, "pub const")
           /\ a > 10
           /\ b > a
           /\ c <= n /\ Char(stripped, c) = "="
        THEN [matched |-> TRUE,
              g1 |-> SubSeq(stripped, a, b - 1),
              g2 |-> SubSeq(stripped, r, stop - 1)]
        ELSE [matched |-> FALSE, g1 |-> "", g2 |-> ""]

\* the comment lines collected above a type (the while loop)
type_doc_lines(lines, i) ==
    LET RECURSIVE Walk(_, _)
        Walk(j, doc_lines) ==
            IF j >= 1 /\ StartsWith(Strip(lines[j]), "///")
            THEN Walk(j - 1, <<Strip(Drop(Strip(lines[j]), 3))>> \o doc_lines)
            ELSE doc_lines
    IN  Walk(i - 1, <<>>)

\* extract_structs_and_enums with the 'pub const ' tests lost: any public
\* line naming a category is taken for a type
extract_structs_and_enums_by_keyword(text) ==
    LET lines == SplitLines(text)
        RECURSIVE Loop(_, _)
        Loop(i, types) ==
            IF i > Len(lines) THEN types
            ELSE LET stripped == Strip(lines[i])
                 IN  IF /\ StartsWith(stripped, "pub ")
                        /\ \/ Contains(stripped, "struct")
                           \/ Contains(stripped, "union")
                           \/ Contains(stripped, "enum")
                     THEN Loop(i + 1, Append(types,
                              [name          |-> "",
                               type          |-> stripped,
                               documentation |-> JoinLines(type_doc_lines(lines, i)),
                               line          |-> i]))
                     ELSE Loop(i + 1, types)
    IN  Loop(1, <<>>)

\* extract_structs_and_enums
extract_structs_and_enums(text) ==
    LET lines == SplitLines(text)
        RECURSIVE Loop(_, _)
        Loop(i, types) ==
            IF i > Len(lines) THEN types
            ELSE LET stripped    == Strip(lines[i])
                     type_match_ == type_match(stripped)
                 IN  IF /\ StartsWith(stripped, "pub const ")
                        /\ \/ Contains(stripped, "struct")
                           \/ Contains(stripped, "union")
                           \/ Contains(stripped, "enum")
                        /\ type_match_.matched
                     THEN Loop(i + 1, Append(types,
                              [name          |-> type_match_.g1,
                               type          |-> Strip(type_match_.g2),
                               documentation |-> JoinLines(type_doc_lines(lines, i)),
                               line          |-> i]))
                     ELSE Loop(i + 1, types)
    IN  Loop(1, <<>>)

\* the dict process_source_file returns for a file that was read
FileRecord(path, text) ==
    [file        |-> path,
     module_docs |-> extract_doc_comments(text),
     functions   |-> extract_function_signatures(text),
     types       |-> extract_structs_and_enums(text)]

----------------------------------------------------------------------------
(* Source texts                                                            *)

\* longest source text, in lines
MaxLines == 3

\* the lines source texts are made of
LineCorpus ==
    { "",
      "/// a",
      "///",
      "  ///  b ",
      "//! m",
      "// c",
      "x",
      "pub fn f(x: u8) u8 {",
      "pub fn g(x: u8,",
      "pub fn h(c: fn () v,",
      "pub fn m() enum {",
      " pub const S = struct {",
      "pub const N = 3;" }

SeqsUpTo(S, n) == UNION { [1..k -> S] : k \in 0..n }

SourceTexts == { JoinLines(ls) : ls \in SeqsUpTo(LineCorpus, MaxLines) }

NoRecord == [file |-> "", module_docs |-> <<>>, functions |-> <<>>, types |-> <<>>]

\* the book generator's variables, while the documentation generator runs
BookIdle == fs = <<>> /\ call = <<>>

\* the scan's variables, while a single text is processed
ScanIdle == files = <<>> /\ scan_i = 0 /\ api_docs = <<>> /\ markdown = <<>>

----------------------------------------------------------------------------
(* Extraction from one source text (process_source_file after the read)    *)

InitExtract ==
    /\ pc = "read"
    /\ content \in SourceTexts
    /\ record = NoRecord
    /\ log = <<>>
    /\ ScanIdle
    /\ BookIdle

ProcessSourceText ==
    /\ pc = "read"
    /\ record' = FileRecord("actor.zig", content)
    /\ pc' = "extracted"
    /\ UNCHANGED <<content, files, scan_i, api_docs, markdown, log, fs, call>>

NextExtract == ProcessSourceText

SpecExtract == InitExtract /\ [][NextExtract]_vars

----------------------------------------------------------------------------
(* DocGenerator: the scan of the source tree and the API reference         *)

\* most source files under the source directory
MaxFiles == 2

\* self.src_dir
src_dir == "src"

\* paths of the files the glob may find, relative to src_dir
SourcePaths == <<"actor.zig", "engine.zig", "util/context.zig">>

\* texts of the scanned files
SampleTexts ==
    { "",
      "x",
      "///",
      "//! m\nx",
      "/// a\npub fn f(x: u8) u8 {",
      "pub fn f(x: u8) u8 {\n/// a\n pub const S = struct {\npub fn m() enum {" }

\* what the scan may find at a path matching **/*.zig: a directory, a file
\* that reads as UTF-8, one that does not decode, one that cannot be read
SourceEntries ==
    { [is_file |-> FALSE, read |-> "ok", text |-> ""] }
    \cup { [is_file |-> TRUE, read |-> "ok", text |-> t] : t \in SampleTexts }
    \cup { [is_file |-> TRUE, read |-> r, text |-> ""] : r \in {"UnicodeDecodeError", "OSError"} }

\* process_source_file(src_dir / rel) on entry e: the exception it lets
\* through ("" for none), what it prints, and the dict it returns (NoRecord
\* stands for the empty dict)
process_source_file(rel, e) ==
    IF e.read = "UnicodeDecodeError"
    THEN [raised |-> "",
          printed |-> <<"Warning: Could not read " \o src_dir \o "/" \o rel \o " as UTF-8">>,
          file_info |-> NoRecord]
    ELSE IF e.read = "ok"
    THEN [raised |-> "", printed |-> <<>>, file_info |-> FileRecord(rel, e.text)]
    ELSE [raised |-> e.read, printed |-> <<>>, file_info |-> NoRecord]

\* any([module_docs, functions, types])
HasContent(file_info) ==
    file_info.module_docs # <<>> \/ file_info.functions # <<>> \/ file_info.types # <<>>

\* One markdown += f"...": the place of the piece in the layout and the
\* value the format is filled with (the format's own characters, among
\* them the backquotes of the headings, are fixed and not kept)
Piece(part, text) == [part |-> part, text |-> text]

\* the pieces appended for the module documentation of one record
ModuleDocPieces(file_info) ==
    IF file_info.module_docs = <<>> THEN <<>>
    ELSE <<Piece("module_heading", "Module Documentation")>>
         \o [k \in 1..Len(SelectSeq(file_info.module_docs, LAMBDA d : d # "")) |->
                Piece("module_doc",
                      SelectSeq(file_info.module_docs, LAMBDA d : d # "")[k])]

\* the pieces appended for one type
TypePieces(type_info) ==
    <<Piece("type_heading", type_info.name)>>
    \o (IF type_info.documentation # ""
        THEN <<Piece("type_doc", type_info.documentation)>> ELSE <<>>)
    \o <<Piece("type_body", type_info.type)>>

\* the pieces appended for one function
FunctionPieces(func) ==
    LET signature ==
            "pub fn " \o func.name \o "(" \o func.params \o ")"
            \o (IF func.return_type # "" THEN " " \o func.return_type ELSE "")
    IN  <<Piece("function_heading", func.name)>>
        \o (IF func.documentation # ""
            THEN <<Piece("function_doc", func.documentation)>> ELSE <<>>)
        \o <<Piece("function_signature", signature)>>

RECURSIVE Flatten(_)
Flatten(ss) == IF ss = <<>> THEN <<>> ELSE Head(ss) \o Flatten(Tail(ss))

\* the body of the loop over api_docs for one record that is not skipped
RecordPieces(file_info) ==
    <<Piece("file_heading", file_info.file)>>
    \o ModuleDocPieces(file_info)
    \o (IF file_info.types # <<>>
        THEN <<Piece("types_heading", "Types")>>
             \o Flatten([k \in 1..Len(file_info.types) |-> TypePieces(file_info.types[k])])
        ELSE <<>>)
    \o (IF file_info.functions # <<>>
        THEN <<Piece("functions_heading", "Functions")>>
             \o Flatten([k \in 1..Len(file_info.functions) |->
                            FunctionPieces(file_info.functions[k])])
        ELSE <<>>)
    \o <<Piece("separator", "---")>>

ReferenceIntro ==
    Piece("intro", "API Reference")

\* generate_api_reference with the test for empty records lost
generate_api_reference_no_skip(docs) ==
    <<ReferenceIntro>>
    \o Flatten([k \in 1..Len(docs) |-> RecordPieces(docs[k].file_info)])

\* generate_api_reference: the pieces of the text, in the order appended
generate_api_reference(docs) ==
    <<ReferenceIntro>>
    \o Flatten([k \in 1..Len(docs) |->
                   IF ~HasContent(docs[k].file_info) THEN <<>>
                   ELSE RecordPieces(docs[k].file_info)])

\* self.docs_dir of the documentation generator
docs_output_dir == "docs"

api_ref_path == docs_output_dir \o "/05-api-reference.md"

toc_path == docs_output_dir \o "/table-of-contents.md"

\* generate_table_of_contents: a fixed text
generate_table_of_contents ==
    "# Table of Contents\n"
    \o "\n"
    \o "## zctor Documentation Book\n"
    \o "\n"
    \o "1. **[Introduction](./01-introduction.md)**\n"
    \o "   - What is the Actor Model?\n"
    \o "   - Why zctor?\n"
    \o "   - Key Features\n"
    \o "   - Use Cases\n"
    \o "   - Architecture Overview\n"
    \o "\n"
    \o "2. **[Installation](./02-installation.md)**\n"
    \o "   - Requirements\n"
    \o "   - Installation Methods\n"
    \o "   - Verifying Installation\n"
    \o "   - Development Setup\n"
    \o "   - Troubleshooting\n"
    \o "\n"
    \o "3. **[Quick Start](./03-quick-start.md)**\n"
    \o "   - Your First Actor\n"
    \o "   - Adding State\n"
    \o "   - Multiple Actors\n"
    \o "   - Common Patterns\n"
    \o "\n"
    \o "4. **[Architecture](./04-architecture.md)**\n"
    \o "   - Core Components\n"
    \o "   - Message Flow\n"
    \o "   - Threading Model\n"
    \o "   - Memory Management\n"
    \o "\n"
    \o "5. **[API Reference](./05-api-reference.md)**\n"
    \o "   - ActorEngine\n"
    \o "   - Actor(T)\n"
    \o "   - ActorThread\n"
    \o "   - Context\n"
    \o "   - Generated API Documentation\n"
    \o "\n"
    \o "6. **[Examples](./06-examples.md)**\n"
    \o "   - Basic Examples\n"
    \o "   - Real-world Use Cases\n"
    \o "   - Performance Examples\n"
    \o "   - Integration Examples\n"
    \o "\n"
    \o "7. **[Best Practices](./07-best-practices.md)**\n"
    \o "   - Design Patterns\n"
    \o "   - Performance Tips\n"
    \o "   - Error Handling\n"
    \o "   - Testing Strategies\n"
    \o "\n"
    \o "8. **[Advanced Topics](./08-advanced-topics.md)**\n"
    \o "   - Custom Allocators\n"
    \o "   - Supervisors\n"
    \o "   - Distributed Actors\n"
    \o "   - Performance Tuning\n"
    \o "\n"
    \o "9. **[Contributing](./09-contributing.md)**\n"
    \o "   - Development Environment\n"
    \o "   - Code Style\n"
    \o "   - Testing\n"
    \o "   - Documentation\n"
    \o "\n"
    \o "10. **[Appendix](./10-appendix.md)**\n"
    \o "    - Glossary\n"
    \o "    - References\n"
    \o "    - License Information\n"
    \o "\n"
    \o "## Navigation\n"
    \o "\n"
    \o "- [Home](./README.md)\n"
    \o "- [Index](./index.md)\n"
    \o "- [Glossary](./glossary.md)\n"

InitScan ==
    /\ pc = "scan"
    /\ \E n \in 0..MaxFiles : files \in [1..n -> SourceEntries]
    /\ scan_i = 0
    /\ api_docs = <<>>
    /\ markdown = <<>>
    /\ log = <<>>
    /\ content = "" /\ record = NoRecord
    /\ fs = [p \in {api_ref_path, toc_path} |-> [kind |-> "absent", writes |-> <<>>]]
    /\ call = <<>>

\* scan_source_files: one turn of the loop over the results of the glob
ScanNextFile ==
    /\ pc = "scan"
    /\ scan_i < Len(files)
    /\ scan_i' = scan_i + 1
    /\ LET zig_file == files[scan_i + 1]
           rel      == SourcePaths[scan_i + 1]
           result   == process_source_file(rel, zig_file)
       IN  IF ~zig_file.is_file
           THEN UNCHANGED <<pc, api_docs, log>>
           ELSE IF result.raised # ""
           THEN /\ pc' = "crashed"
                /\ log' = Append(log, "Traceback: " \o result.raised)
                /\ UNCHANGED api_docs
           ELSE /\ pc' = pc
                /\ log' = log \o result.printed
                /\ api_docs' =
                       IF result.file_info # NoRecord
                       THEN Append(api_docs,
                                   [key |-> src_dir \o "/" \o rel,
                                    file_info |-> result.file_info])
                       ELSE api_docs
    /\ UNCHANGED <<content, record, files, markdown, fs, call>>

\* generate_docs after the scan: the reference is rendered and written,
\* then the table of contents
GenerateApiReference ==
    /\ pc = "scan"
    /\ scan_i = Len(files)
    /\ markdown' = generate_api_reference(api_docs)
    /\ fs' = [fs EXCEPT ![api_ref_path] = [kind |-> "file", writes |-> <<markdown'>>],
                        ![toc_path] = [kind |-> "file",
                                       writes |-> <<generate_table_of_contents>>]]
    /\ pc' = "done"
    /\ UNCHANGED <<content, record, files, scan_i, api_docs, log, call>>

NextScan == ScanNextFile \/ GenerateApiReference

SpecScan == InitScan /\ [][NextScan]_vars

----------------------------------------------------------------------------
(* Properties of the extractors                                            *)

Lines == SplitLines(content)

Range(f) == { f[x] : x \in DOMAIN f }

\* a line that is a documentation comment of either kind
IsDocLine(l) == StartsWith(Strip(l), "//!") \/ StartsWith(Strip(l), "///")

\* a line that is an item-level documentation comment
IsItemDoc(l) == StartsWith(Strip(l), "///")

\* the trimmed line t without its marker and without one following space
MarkerAndOneSpaceRemoved(t) ==
    IF StartsWith(Drop(t, 3), " ") THEN Drop(t, 4) ELSE Drop(t, 3)

\* the trimmed line t without its marker and without the blanks after it
MarkerAndBlanksRemoved(t) == LStrip(Drop(t, 3))

DocLines == SelectSeq(Lines, IsDocLine)

\* C4 as stated: one entry per documentation-comment line, in source order,
\* duplicates kept, nothing for other lines; each entry is the trimmed line
\* less its marker and at most one following space.
C4_EntriesLoseMarkerAndOneSpace ==
    pc = "extracted" =>
        record.module_docs =
            [k \in 1..Len(DocLines) |-> MarkerAndOneSpaceRemoved(Strip(DocLines[k]))]

\* C4 as amended: one entry per documentation-comment line, in source order,
\* duplicates kept, nothing for other lines; each entry is the trimmed line
\* less its marker and all the blanks that follow the marker.
C4_EntriesLoseMarkerAndBlanks ==
    pc = "extracted" =>
        record.module_docs =
            [k \in 1..Len(DocLines) |-> MarkerAndBlanksRemoved(Strip(DocLines[k]))]

\* C4 witness: a text with both kinds of comment, one of them with two blanks
\* after its marker, and a line that is no comment
C4_Witness ==
    /\ pc = "extracted"
    /\ "m" \in Range(record.module_docs)
    /\ "b" \in Range(record.module_docs)
    /\ Len(record.module_docs) < Len(Lines)

\* the declarations of the record, of both kinds
Declarations == Range(record.functions) \cup Range(record.types)

\* number of item-level comment lines directly above line i
RunLength(lines, i) ==
    CHOOSE k \in 0..(i - 1) :
        /\ \A m \in 1..k : IsItemDoc(lines[i - m])
        /\ k = i - 1 \/ ~IsItemDoc(lines[i - k - 1])

\* the maximal run of item-level comments ending directly above line i,
\* markers removed, in source order
DocRun(lines, i) ==
    LET k == RunLength(lines, i)
    IN  [m \in 1..k |-> Strip(Drop(Strip(lines[i - k + m - 1]), 3))]

\* the entries of a stored documentation text: none for the empty text
DocEntries(doc) == IF doc = "" THEN <<>> ELSE SplitLines(doc)

\* C1 as stated: a declaration's documentation has exactly the entries of
\* the maximal run of item-level comments ending directly above it, so N
\* comment lines give N entries.
C1_DocumentationHasTheRunsEntries ==
    pc = "extracted" =>
        \A d \in Declarations :
            DocEntries(d.documentation) = DocRun(Lines, d.line)

\* C1 as amended: a declaration's documentation is the newline-joined text
\* of the maximal run of item-level comments ending directly above it; it
\* is empty when the line above is missing, blank or no item comment; N
\* comment lines give N entries unless the run is a single comment with no
\* text, whose documentation is the empty text.
C1_DocumentationIsTheJoinedRun ==
    pc = "extracted" =>
        \A d \in Declarations :
            LET run == DocRun(Lines, d.line)
            IN  /\ d.documentation = JoinLines(run)
                /\ run # <<"">> => DocEntries(d.documentation) = run
                /\ (d.line = 1 \/ ~IsItemDoc(Lines[d.line - 1]))
                       => d.documentation = ""

\* C1 witness: a function on line 3 under two comment lines, both captured
C1_Witness ==
    /\ pc = "extracted"
    /\ \E k \in DOMAIN record.functions :
           /\ record.functions[k].line = 3
           /\ Len(DocEntries(record.functions[k].documentation)) = 2
           /\ IsItemDoc(Lines[1]) /\ IsItemDoc(Lines[2])

\* index of the parenthesis closing the one opened before position i, at
\* nesting depth d; 0 when the line ends first
RECURSIVE MatchingClose(_, _, _)
MatchingClose(s, i, d) ==
    IF i > Len(s) THEN 0
    ELSE IF Char(s, i) = "(" THEN MatchingClose(s, i + 1, d + 1)
    ELSE IF Char(s, i) = ")"
         THEN IF d = 1 THEN i ELSE MatchingClose(s, i + 1, d - 1)
    ELSE MatchingClose(s, i + 1, d)

\* the trimmed line t holds a whole declaration head: a name, and a
\* parameter list that is closed on the same line
HasSingleLineShape(t) ==
    LET a == SkipChars(t, 7, Whitespace)
        b == SkipChars(t, a, WordChars)
        c == SkipChars(t, b, Whitespace)
    IN  /\ b > a
        /\ c <= Len(t) /\ Char(t, c) = "("
        /\ MatchingClose(t, c + 1, 1) # 0

\* C5 as stated: a public function line whose parameter list is not closed
\* on that line yields no record.
C5_NoRecordWithoutSingleLineShape ==
    pc = "extracted" =>
        \A i \in 1..Len(Lines) :
            (StartsWith(Strip(Lines[i]), "pub fn ") /\ ~HasSingleLineShape(Strip(Lines[i])))
                => \A k \in DOMAIN record.functions : record.functions[k].line # i

\* C8: no source line has an entry in both functions and types.
C8_FunctionsAndTypesDisjoint ==
    pc = "extracted" =>
        { record.functions[k].line : k \in DOMAIN record.functions }
            \cap { record.types[k].line : k \in DOMAIN record.types } = {}

\* C8 witness: a record with a function and a type, the function's line
\* naming a category keyword
C8_Witness ==
    /\ pc = "extracted"
    /\ record.types # <<>>
    /\ \E k \in DOMAIN record.functions :
           Contains(Lines[record.functions[k].line], "enum")

----------------------------------------------------------------------------
(* Properties of the scan and of the API reference                         *)

\* the files of the scan that are regular files and read as UTF-8
ReadableFiles == { k \in DOMAIN files : files[k].is_file /\ files[k].read = "ok" }

\* the files of the scan whose read fails, either way
FailingFiles == { k \in DOMAIN files : files[k].is_file /\ files[k].read # "ok" }

\* C3 as stated: a read error of either kind (decoding, I/O) is never fatal;
\* the scan runs to completion, every readable file has its record, a
\* failing file has none and a warning is printed for it.
C3_ReadErrorsAreNeverFatal ==
    /\ pc # "crashed"
    /\ pc = "done" =>
           /\ { api_docs[k].key : k \in DOMAIN api_docs }
                  = { src_dir \o "/" \o SourcePaths[k] : k \in ReadableFiles }
           /\ Len(log) = Cardinality(FailingFiles)

\* a record whose module documentation, functions and types are all empty
IsEmptyRecord(r) == r.module_docs = <<>> /\ r.functions = <<>> /\ r.types = <<>>

\* the records the reference has to show, in the order supplied
IncludedRecords ==
    LET docs == SelectSeq(api_docs, LAMBDA d : ~IsEmptyRecord(d.file_info))
    IN  [k \in 1..Len(docs) |-> docs[k].file_info]

PartIndexes(part) == { i \in DOMAIN markdown : markdown[i].part = part }

\* the k-th smallest member of the set of indexes S
KthIndex(S, k) == CHOOSE i \in S : Cardinality({ j \in S : j <= i }) = k

\* C7: the reference holds one section per record that is not empty, in
\* the order supplied, each from its file heading to its separator, and
\* nothing else but the introduction: nothing is emitted for an empty
\* record. The function subsections of a section are those of the record's
\* functions list, one each, in order.
C7_OneSectionPerIncludedRecord ==
    pc = "done" =>
        LET inc == IncludedRecords
            H   == PartIndexes("file_heading")
            S   == PartIndexes("separator")
        IN  /\ Cardinality(H) = Len(inc)
            /\ Cardinality(S) = Len(inc)
            /\ Len(inc) = 0 => Len(markdown) = 1
            /\ Len(inc) > 0 => KthIndex(H, 1) = 2 /\ KthIndex(S, Len(inc)) = Len(markdown)
            /\ \A k \in 1..Len(inc) :
                   LET h == KthIndex(H, k)
                       e == KthIndex(S, k)
                       subsections ==
                           SelectSeq(SubSeq(markdown, h, e),
                                     LAMBDA x : x.part = "function_heading")
                   IN  /\ h < e
                       /\ k < Len(inc) => KthIndex(H, k + 1) = e + 1
                       /\ markdown[h].text = inc[k].file
                       /\ [j \in 1..Len(subsections) |-> subsections[j].text]
                              = [j \in 1..Len(inc[k].functions) |-> inc[k].functions[j].name]

\* C7 witness: an empty record and a record with exactly one documented
\* function were rendered, with exactly one function subsection
C7_Witness ==
    /\ pc = "done"
    /\ \E k \in DOMAIN api_docs : IsEmptyRecord(api_docs[k].file_info)
    /\ \E k \in DOMAIN api_docs :
           /\ Len(api_docs[k].file_info.functions) = 1
           /\ api_docs[k].file_info.functions[1].documentation # ""
    /\ Cardinality(PartIndexes("function_heading")) = 1
    /\ Cardinality(PartIndexes("file_heading")) = 1

----------------------------------------------------------------------------
(* BookGenerator                                                           *)

\* self.chapters: the registry
chapters ==
    << <<"README.md", "Introduction to the Documentation">>,
       <<"01-introduction.md", "Introduction">>,
       <<"02-installation.md", "Installation">>,
       <<"03-quick-start.md", "Quick Start">>,
       <<"04-architecture.md", "Architecture">>,
       <<"05-api-reference.md", "API Reference">>,
       <<"06-examples.md", "Examples">>,
       <<"07-best-practices.md", "Best Practices">>,
       <<"08-advanced-topics.md", "Advanced Topics">>,
       <<"09-contributing.md", "Contributing">>,
       <<"10-appendix.md", "Appendix">> >>

\* self.docs_dir
docs_dir == "docs"

\* self.docs_dir / filename
chapter_file(i) == docs_dir \o "/" \o chapters[i][1]

\* temp_md in generate_html, relative to the working directory
temp_md == "temp_book.md"

\* the paths of the model's file system
Paths ==
    { chapter_file(i) : i \in DOMAIN chapters }
    \cup { temp_md, "zctor-book.md", "zctor-book.html" }

\* a file is kept as the sequence of the texts written to it; its content
\* is their concatenation
Absent == [kind |-> "absent", writes |-> <<>>]
Directory == [kind |-> "dir", writes |-> <<>>]
File(writes) == [kind |-> "file", writes |-> writes]

RECURSIVE Concat(_)
Concat(ws) == IF ws = <<>> THEN "" ELSE Head(ws) \o Concat(Tail(ws))

\* f.read()
Read(entry) == Concat(entry.writes)

UpperCase == "ABCDEFGHIJKLMNOPQRSTUVWXYZ"
LowerCase == "abcdefghijklmnopqrstuvwxyz"

\* title.lower().replace(' ', '-').replace('(', '').replace(')', '')
RECURSIVE Anchor(_)
Anchor(title) ==
    IF title = "" THEN ""
    ELSE LET c == Char(title, 1)
             l == IF \E k \in 1..Len(UpperCase) : Char(UpperCase, k) = c
                  THEN Char(LowerCase, CHOOSE k \in 1..Len(UpperCase) : Char(UpperCase, k) = c)
                  ELSE c
         IN  (IF l = " " THEN "-" ELSE IF l \in {"(", ")"} THEN "" ELSE l)
             \o Anchor(Drop(title, 1))

\* datetime.now().strftime(...), at the time of the run
timestamp == "2026-01-01 00:00:00"

\* the writes before the chapters: the book header and the table of contents
Preamble ==
    << "# zctor Documentation Book\n\n",
       "A comprehensive guide to the zctor actor framework for Zig.\n\n",
       "*Generated on " \o timestamp \o "*\n\n",
       "---\n\n",
       "## Table of Contents\n\n" >>
    \o [i \in 1..Len(chapters) |->
           ToString(i) \o ". [" \o chapters[i][2] \o "](#" \o Anchor(chapters[i][2]) \o ")\n"]
    \o << "\n---\n\n" >>

\* the chapter filter with the test for a heading lost: the first line
\* always goes
ChapterBody_always_dropped(text) ==
    JoinLines(Tail(SplitLines(text)))

\* what is written of a chapter's content: without its first line when
\* that line starts with '#'
ChapterBody(text) ==
    LET lines == SplitLines(text)
    IN  IF lines # <<>> /\ StartsWith(lines[1], "#")
        THEN JoinLines(Tail(lines))
        ELSE text

ChapterHeading(i) == "# " \o ToString(i) \o ". " \o chapters[i][2] \o "\n\n"

\* the loop over the chapters, from chapter i on, appending to writes; it
\* ends early with the exception open() raises on a directory
RECURSIVE WriteChapters(_, _, _)
WriteChapters(fsys, i, writes) ==
    IF i > Len(chapters) THEN [writes |-> writes, raised |-> ""]
    ELSE LET entry == fsys[chapter_file(i)]
         IN  IF entry.kind = "absent"
             THEN WriteChapters(fsys, i + 1,
                      Append(writes,
                             "# " \o ToString(i) \o ". " \o chapters[i][2]
                             \o "\n\n*Chapter not found: " \o chapters[i][1]
                             \o "*\n\n---\n\n"))
             ELSE IF entry.kind = "dir"
             THEN [writes |-> Append(writes, ChapterHeading(i)),
                   raised |-> "IsADirectoryError"]
             ELSE WriteChapters(fsys, i + 1,
                      writes \o <<ChapterHeading(i), ChapterBody(Read(entry)), "\n\n---\n\n">>)

\* generate_combined_markdown with the branch for a missing chapter lost
generate_combined_markdown_skipping(fsys, output_file) ==
    LET present == SelectSeq([i \in 1..Len(chapters) |-> i],
                             LAMBDA i : fsys[chapter_file(i)].kind = "file")
        ws == Preamble
              \o Flatten([k \in 1..Len(present) |->
                    <<ChapterHeading(present[k]),
                      ChapterBody(Read(fsys[chapter_file(present[k])])),
                      "\n\n---\n\n">>])
    IN  [fs      |-> [fsys EXCEPT ![output_file] = File(ws)],
         raised  |-> "",
         printed |-> <<"Combined markdown book generated: " \o output_file>>]

\* generate_combined_markdown: the file system it leaves, the exception it
\* lets through ("" for none) and what it prints
generate_combined_markdown(fsys, output_file) ==
    LET opened == [fsys EXCEPT ![output_file] = File(<<>>)]
        result == WriteChapters(opened, 1, Preamble)
    IN  [fs      |-> [opened EXCEPT ![output_file] = File(result.writes)],
         raised  |-> result.raised,
         printed |-> IF result.raised = ""
                     THEN <<"Combined markdown book generated: " \o output_file>>
                     ELSE <<"Traceback: " \o result.raised>>]

\* html_content = markdown.markdown(md_content, extensions=[...]): the
\* renderer is an external package; the rendering is kept as the text it
\* was given, marked as rendered
markdown_markdown(md_content) == "<!-- rendered -->" \o md_content

\* generate_html with the import test moved after the markdown is generated
generate_html_import_late(fsys, output_file, markdown_available) ==
    LET combined == generate_combined_markdown(fsys, temp_md)
    IN  [fs      |-> combined.fs,
         raised  |-> combined.raised,
         printed |-> combined.printed
                     \o <<"Error: markdown package required for HTML generation",
                          "Install with: pip install markdown">>]

\* generate_html: the file system it leaves, the exception it lets through
\* ("" for none) and what it prints
generate_html(fsys, output_file, markdown_available) ==
    IF ~markdown_available
    THEN [fs      |-> fsys,
          raised  |-> "",
          printed |-> <<"Error: markdown package required for HTML generation",
                        "Install with: pip install markdown">>]
    ELSE LET combined == generate_combined_markdown(fsys, temp_md)
         IN  IF combined.raised # "" THEN combined
             ELSE LET md_content == Read(combined.fs[temp_md])
                      full_html  ==
                          "<!DOCTYPE html>\n<html lang=\"en\">\n<body>\n"
                          \o markdown_markdown(md_content)
                          \o "\n</body>\n</html>"
                      written == [combined.fs EXCEPT ![output_file] = File(<<full_html>>)]
                      removed == [written EXCEPT ![temp_md] = Absent]
                  IN  [fs      |-> removed,
                       raised  |-> "",
                       printed |-> combined.printed
                                   \o <<"HTML book generated: " \o output_file>>]

----------------------------------------------------------------------------
(* The runs of the book generator                                          *)

\* longest chapter text enumerated character by character
MaxChapterChars == 3

ChapterAlphabet == {"#", "\n", "a", " "}

RECURSIVE TextsUpTo(_)
TextsUpTo(n) ==
    IF n = 0 THEN {""}
    ELSE LET shorter == TextsUpTo(n - 1)
         IN  shorter \cup { t \o c : t \in shorter, c \in ChapterAlphabet }

\* chapter texts given to the chapters in turn when several exist
SampleChapters == <<"# Title\nHello", "Hello\n", "", "#", "Intro\n# Not first\n">>

SampleChapter(i) == SampleChapters[((i - 1) % Len(SampleChapters)) + 1]

SampleChapterTexts == [i \in DOMAIN chapters |-> SampleChapter(i)]

\* a docs directory: the chapters in present exist, chapter i with the
\* text texts[i], the path of chapter dir_at (0: none) is a directory, and
\* the paths in old hold a file of an earlier run
FileSystem(present, texts, dir_at, old) ==
    [p \in Paths |->
        IF \E i \in DOMAIN chapters : p = chapter_file(i) /\ i = dir_at
        THEN Directory
        ELSE IF \E i \in present : p = chapter_file(i)
        THEN File(<<texts[CHOOSE i \in present : p = chapter_file(i)]>>)
        ELSE IF p \in old THEN File(<<"old">>)
        ELSE Absent]

\* the output files main() may pass
MarkdownOutputs == {"zctor-book.md"}
HtmlOutputs == {"zctor-book.html", temp_md, chapter_file(1)}

NoCall == [fn |-> "", output_file |-> "", markdown_available |-> FALSE]

DocsIdle ==
    /\ content = "" /\ record = NoRecord
    /\ files = <<>> /\ scan_i = 0 /\ api_docs = <<>> /\ markdown = <<>>

\* any subset of the chapters existing, one path at most a directory; or a
\* single chapter existing, with any short text
InitBook ==
    /\ pc = "start"
    /\ \/ \E present \in SUBSET DOMAIN chapters, dir_at \in {0} \cup DOMAIN chapters :
              fs = FileSystem(present, SampleChapterTexts, dir_at, {})
       \/ \E i \in DOMAIN chapters, t \in TextsUpTo(MaxChapterChars) :
              fs = FileSystem({i}, [k \in DOMAIN chapters |-> t], 0, {})
    /\ call = NoCall
    /\ log = <<>>
    /\ DocsIdle

\* the first chapters existing, chapter 3 possibly a directory, files of an
\* earlier run possibly present
InitHtml ==
    /\ pc = "start"
    /\ \E n \in 0..Len(chapters), dir_at \in {0, 3},
          old \in SUBSET {temp_md, "zctor-book.html"} :
              fs = FileSystem(1..n, SampleChapterTexts, dir_at, old)
    /\ call = NoCall
    /\ log = <<>>
    /\ DocsIdle

\* main() with --format markdown
GenerateCombinedMarkdown ==
    /\ pc = "start"
    /\ \E output_file \in MarkdownOutputs :
           LET result == generate_combined_markdown(fs, output_file)
           IN  /\ fs' = result.fs
               /\ log' = log \o result.printed
               /\ pc' = IF result.raised = "" THEN "done" ELSE "crashed"
               /\ call' = [fn |-> "generate_combined_markdown",
                           output_file |-> output_file,
                           markdown_available |-> FALSE]
    /\ UNCHANGED <<content, record, files, scan_i, api_docs, markdown>>

\* main() with --format html, the markdown package installed or not
GenerateHtml ==
    /\ pc = "start"
    /\ \E output_file \in HtmlOutputs, markdown_available \in BOOLEAN :
           LET result == generate_html(fs, output_file, markdown_available)
           IN  /\ fs' = result.fs
               /\ log' = log \o result.printed
               /\ pc' = IF result.raised = "" THEN "done" ELSE "crashed"
               /\ call' = [fn |-> "generate_html",
                           output_file |-> output_file,
                           markdown_available |-> markdown_available]
    /\ UNCHANGED <<content, record, files, scan_i, api_docs, markdown>>

NextBook == GenerateCombinedMarkdown

SpecBook == InitBook /\ [][NextBook]_vars

NextHtml == GenerateHtml

SpecHtml == InitHtml /\ [][NextHtml]_vars

----------------------------------------------------------------------------
(* Properties of the book generator                                        *)

ChapterExists(i) == fs[chapter_file(i)].kind # "absent"

\* no chapter path is anything but a file or nothing
OnlyFilesOrNothing == \A i \in DOMAIN chapters : fs[chapter_file(i)].kind # "dir"

\* what was written to the output file of the call
Written == fs[call.output_file].writes

\* number of writes a complete run makes before the section of chapter i:
\* those of the header and of the table of contents, three for each earlier
\* chapter that exists (heading, body, separator) and one for each that
\* does not
RECURSIVE WritesBefore(_)
WritesBefore(i) ==
    IF i = 1 THEN 5 + Len(chapters) + 1
    ELSE WritesBefore(i - 1) + (IF ChapterExists(i - 1) THEN 3 ELSE 1)

NumberedHeading(i) == "# " \o ToString(i) \o ". " \o chapters[i][2] \o "\n\n"

\* C2: whatever subset of the chapter files exists, the run completes and
\* the output holds, after the table of contents, exactly one section per
\* registry entry, in registry order, each opened by its numbered heading
\* and closed by a separator; the section of a missing file is the notice
\* 'Chapter not found: <filename>'.
C2_OneSectionPerRegistryEntry ==
    (pc # "start" /\ call.fn = "generate_combined_markdown" /\ OnlyFilesOrNothing) =>
        /\ pc = "done"
        /\ Len(Written) = WritesBefore(Len(chapters) + 1)
        /\ \A i \in DOMAIN chapters :
               LET at == WritesBefore(i) + 1
               IN  IF ChapterExists(i)
                   THEN /\ Written[at] = NumberedHeading(i)
                        /\ Written[at + 2] = "\n\n---\n\n"
                   ELSE Written[at] =
                            NumberedHeading(i) \o "*Chapter not found: "
                            \o chapters[i][1] \o "*" \o "\n\n---\n\n"

\* C2 witness: a completed run with the first chapter present and the
\* second missing
C2_Witness ==
    /\ pc = "done"
    /\ call.fn = "generate_combined_markdown"
    /\ ChapterExists(1)
    /\ ~ChapterExists(2)
    /\ \E i \in 3..Len(chapters) : ChapterExists(i)

\* the text t without its first line: what follows its first line break,
\* nothing when it has none
WithoutFirstLine(t) == Drop(t, FindChar(t, 1, {"\n"}))

\* C9: the body written under the heading of an existing chapter is the
\* content of its file, without the first line if and only if the content
\* starts with '#'.
C9_BodyIsContentLessHeadingLine ==
    (pc = "done" /\ call.fn = "generate_combined_markdown") =>
        \A i \in DOMAIN chapters :
            ChapterExists(i) =>
                LET text == Read(fs[chapter_file(i)])
                IN  Written[WritesBefore(i) + 2] =
                        IF text # "" /\ Char(text, 1) = "#"
                        THEN WithoutFirstLine(text)
                        ELSE text

\* C9 witness: a completed run over a chapter that starts with a heading
\* and has more lines, and over a chapter that does not start with one
C9_Witness ==
    /\ pc = "done"
    /\ call.fn = "generate_combined_markdown"
    /\ \E i \in DOMAIN chapters :
           /\ ChapterExists(i)
           /\ StartsWith(Read(fs[chapter_file(i)]), "#")
           /\ Written[WritesBefore(i) + 2] # ""
    /\ \E i \in DOMAIN chapters :
           /\ ChapterExists(i)
           /\ ~StartsWith(Read(fs[chapter_file(i)]), "#")
           /\ Contains(Read(fs[chapter_file(i)]), "\n")

\* C6: without the markdown package generate_html prints the error and how
\* to install the package, and leaves every file as it was.
C6_NothingWrittenWithoutRenderer ==
    [][(pc = "start" /\ call'.fn = "generate_html" /\ ~call'.markdown_available) =>
           /\ fs' = fs
           /\ pc' = "done"
           /\ log' = <<"Error: markdown package required for HTML generation",
                       "Install with: pip install markdown">>]_vars

\* C6 witness: generate_html has returned without the package, the files
\* of an earlier run still in place
C6_Witness ==
    /\ pc = "done"
    /\ call.fn = "generate_html"
    /\ ~call.markdown_available
    /\ fs[temp_md] = File(<<"old">>)
    /\ fs["zctor-book.html"] = File(<<"old">>)

\* C10 as stated: after generate_html has completed with the package
\* installed, the HTML document is at the output path and the transient
\* markdown file is gone.
C10_HtmlIsAtTheOutputPath ==
    (pc = "done" /\ call.fn = "generate_html" /\ call.markdown_available) =>
        /\ fs[call.output_file].kind = "file"
        /\ fs[temp_md].kind = "absent"

============================================================================
